---- MODULE Spec2Model ----
(***************************************************************************)
(* TSUNAMI (TypeScript Untar Multiple Reads): a windowed ustar decoder.    *)
(*                                                                         *)
(* src/tsunami.ts holds two variants of the decoder.  Variant A is the     *)
(* first Tsunami class (lines 28-465), variant B the second (467-1049).   *)
(*                                                                         *)
(* Bytes are modelled as characters and byte buffers as strings: the       *)
(* archive is one string, a window is a substring of it.  The character    *)
(* NUL stands for the byte 0x00.  JavaScript values that can change type   *)
(* at run time (a TarFile field overwritten by a PAX record) are modelled  *)
(* as tagged values, see Str, Num, NaN, Undefined, Null.                   *)
(***************************************************************************)
EXTENDS Integers, Sequences, FiniteSets, TLC

-----------------------------------------------------------------------------
(* Program constants, src/tsunami.ts lines 35-53 *)

NAME_LENGTH == 100
MODE_LENGTH == 8
UID_LENGTH == 8
GID_LENGTH == 8
SIZE_LENGTH == 12
MTIME_LENGTH == 12
CHECKSUM_LENGTH == 8
TYPE_LENGTH == 1
LINKNAME_LENGTH == 100
USTARFORMAT_LENGTH == 6
VERSION_LENGTH == 2
UNAME_LENGTH == 32
GNAME_LENGTH == 32
DEVMAJOR_LENGTH == 8
DEVMINOR_LENGTH == 8
NAMEPREFIX_LENGTH == 155
HEADER_SIZE == 512
LONG_LINK_FILENAME == "././@LongLink"

-----------------------------------------------------------------------------
(* Bytes and byte strings *)

\* The byte 0x00.
NUL == "$"

NUL8 == NUL \o NUL \o NUL \o NUL \o NUL \o NUL \o NUL \o NUL
NUL64 == NUL8 \o NUL8 \o NUL8 \o NUL8 \o NUL8 \o NUL8 \o NUL8 \o NUL8
NUL512 == NUL64 \o NUL64 \o NUL64 \o NUL64 \o NUL64 \o NUL64 \o NUL64 \o NUL64

Min(a, b) == IF a < b THEN a ELSE b
Max(a, b) == IF a > b THEN a ELSE b

CharAt(s, i) == SubSeq(s, i, i)

\* ArrayBuffer.prototype.slice / TypedArray.prototype.subarray / Blob.slice on
\* 0-based [begin, end): a negative index counts from the end, both are
\* clamped to the length, and an empty range gives an empty buffer.
RelIndex(i, len) == IF i < 0 THEN Max(len + i, 0) ELSE Min(i, len)

Slice[s \in STRING, begin \in Int, end \in Int] ==
    LET b == RelIndex(begin, Len(s))
        e == RelIndex(end, Len(s))
    IN IF e <= b THEN "" ELSE SubSeq(s, b + 1, e)

\* Uint8Array.prototype.indexOf / String.prototype.indexOf, 0-based, -1 when absent.
IndexOf[s \in STRING, sub \in STRING] ==
    LET hits == {i \in 0..(Len(s) - Len(sub)) : SubSeq(s, i + 1, i + Len(sub)) = sub}
    IN IF hits = {} THEN -1 ELSE CHOOSE i \in hits : \A j \in hits : i <= j

Includes(s, sub) == IndexOf[s, sub] > -1

EndsWith[s \in STRING, sub \in STRING] ==
    Len(sub) <= Len(s) /\ SubSeq(s, Len(s) - Len(sub) + 1, Len(s)) = sub

DecDigits == "0123456789"
OctDigits == "01234567"
WhiteSpace == " \n\t\r"

IsDecDigit(c) == Includes(DecDigits, c)
IsOctDigit(c) == Includes(OctDigits, c)
IsSpace(c) == Includes(WhiteSpace, c)
DigitValue(c) == IndexOf[DecDigits, c]

AllDecDigits[s \in STRING] == \A i \in 1..Len(s) : IsDecDigit(CharAt(s, i))

\* The value of a string of digits read in the given base.
DigitsValue[s \in STRING, base \in Nat] ==
    IF s = "" THEN 0
    ELSE DigitsValue[SubSeq(s, 1, Len(s) - 1), base] * base
         + DigitValue(CharAt(s, Len(s)))

\* String.prototype.trim, and the leading-blank skip of parseInt.
TrimStart[s \in STRING] ==
    IF s # "" /\ IsSpace(CharAt(s, 1)) THEN TrimStart[SubSeq(s, 2, Len(s))] ELSE s

TrimEnd[s \in STRING] ==
    IF s # "" /\ IsSpace(CharAt(s, Len(s)))
    THEN TrimEnd[SubSeq(s, 1, Len(s) - 1)] ELSE s

Trim[s \in STRING] == TrimEnd[TrimStart[s]]

-----------------------------------------------------------------------------
(* JavaScript values *)

Str(s) == [t |-> "string", n |-> 0, s |-> s]
Num(n) == [t |-> "number", n |-> n, s |-> ""]
NaN == [t |-> "number", n |-> 0, s |-> "NaN"]
Undefined == [t |-> "undefined", n |-> 0, s |-> ""]
Null == [t |-> "null", n |-> 0, s |-> ""]

IsNaN(v) == v = NaN

\* Number.prototype.toString for the integers of the model.
NatToString[n \in Nat] ==
    IF n < 10 THEN CharAt(DecDigits, n + 1)
    ELSE NatToString[n \div 10] \o CharAt(DecDigits, (n % 10) + 1)

\* StringOf (ToString): the text a value turns into when it is concatenated or searched.
StringOf(v) ==
    CASE v.t = "string" -> v.s
      [] v.t = "number" -> IF IsNaN(v) THEN "NaN"
                           ELSE IF v.n < 0 THEN "-" \o NatToString[-v.n]
                           ELSE NatToString[v.n]
      [] v.t = "undefined" -> "undefined"
      [] OTHER -> "null"

\* Number(text): blanks are trimmed, the empty text is 0, a text of decimal
\* digits is its value, any other text of the model's alphabet is NaN.
StringToNumber[s \in STRING] ==
    LET w == Trim[s]
    IN IF w = "" THEN Num(0)
       ELSE IF AllDecDigits[w] THEN Num(DigitsValue[w, 10])
       ELSE NaN

\* ToNumber: the number a value turns into in a comparison or in isNaN.
ToNumber(v) ==
    CASE v.t = "string" -> StringToNumber[v.s]
      [] v.t = "number" -> v
      [] v.t = "null" -> Num(0)
      [] OTHER -> NaN

\* if (v), v || w
Truthy(v) ==
    CASE v.t = "string" -> v.s # ""
      [] v.t = "number" -> ~IsNaN(v) /\ v.n # 0
      [] OTHER -> FALSE

\* a > b and a < b on numbers: false as soon as one side is NaN.
Greater(a, b) ==
    LET x == ToNumber(a)
        y == ToNumber(b)
    IN ~IsNaN(x) /\ ~IsNaN(y) /\ x.n > y.n

Less(a, b) == Greater(b, a)

\* a + b: concatenation as soon as one side is a string.
Plus(a, b) ==
    IF a.t = "string" \/ b.t = "string" THEN Str(StringOf(a) \o StringOf(b))
    ELSE LET x == ToNumber(a)
             y == ToNumber(b)
         IN IF IsNaN(x) \/ IsNaN(y) THEN NaN ELSE Num(x.n + y.n)

\* ToIntegerOrInfinity, used by slice on its arguments: NaN is 0.
ToInteger(v) == LET x == ToNumber(v) IN IF IsNaN(x) THEN 0 ELSE x.n

\* parseInt(value, 8): leading blanks are skipped, then the longest run of
\* octal digits is read; NaN when there is none.
OctalPrefix[s \in STRING] ==
    IF s # "" /\ IsOctDigit(CharAt(s, 1))
    THEN CharAt(s, 1) \o OctalPrefix[SubSeq(s, 2, Len(s))]
    ELSE ""

ParseInt8(v) ==
    LET digits == OctalPrefix[TrimStart[StringOf(v)]]
    IN IF digits = "" THEN NaN ELSE Num(DigitsValue[digits, 8])

\* Math.ceil(size / HEADER_SIZE) * HEADER_SIZE on a number.
PaddedSizeOf(size) ==
    IF IsNaN(size) THEN NaN
    ELSE Num(((size.n + HEADER_SIZE - 1) \div HEADER_SIZE) * HEADER_SIZE)

-----------------------------------------------------------------------------
(* Variant A: helpers *)

isValidName(fileName) ==
    fileName # Str("") /\ fileName # Str(".") /\ fileName # Str("./")

decodeOctal(value) ==
    IF ~IsNaN(StringToNumber[value]) THEN ParseInt8(Str(value)) ELSE Num(0)

\* A RegExp of the filter list: a literal text, searched anywhere or, with
\* atEnd, anchored at the end of the name ($).  test() turns its argument
\* into a string first.
RegExpTest(re, v) ==
    IF re.atEnd THEN EndsWith[StringOf(v), re.text]
    ELSE Includes(StringOf(v), re.text)

MatchesSome(types, v) == \E i \in 1..Len(types) : RegExpTest(types[i], v)

\* UntarStream.readString at 0-based position pos of buffer buf: the bytes
\* up to the first zero byte, at most charCount of them.
readString[buf \in STRING, pos \in Int, charCount \in Int] ==
    LET field == Slice[buf, pos, pos + charCount]
        z == IndexOf[field, NUL]
    IN IF z = -1 THEN field ELSE SubSeq(field, 1, z)

\* The TarFile object makeTarFile returns for the 512 bytes at position pos
\* of buf, once it has settled the name and continueRead: the fields after
\* size are read only when continueRead holds.
TarFile(buf, pos, name, continueRead) ==
    LET pMode == pos + NAME_LENGTH
        pUid == pMode + MODE_LENGTH
        pGid == pUid + UID_LENGTH
        pSize == pGid + GID_LENGTH
        pMtime == pSize + SIZE_LENGTH
        pChecksum == pMtime + MTIME_LENGTH
        pType == pChecksum + CHECKSUM_LENGTH
        pLinkname == pType + TYPE_LENGTH
        pUstar == pLinkname + LINKNAME_LENGTH
        pVersion == pUstar + USTARFORMAT_LENGTH
        pUname == pVersion + VERSION_LENGTH
        pGname == pUname + UNAME_LENGTH
        pDevmajor == pGname + GNAME_LENGTH
        pDevminor == pDevmajor + DEVMAJOR_LENGTH
        pPrefix == pDevminor + DEVMINOR_LENGTH
        size == decodeOctal(readString[buf, pSize, SIZE_LENGTH])
        Text(p, n) == Str(IF continueRead THEN readString[buf, p, n] ELSE "")
        Octal(p, n) == IF continueRead THEN decodeOctal(readString[buf, p, n]) ELSE Num(0)
    IN [ prefix |-> Text(pPrefix, NAMEPREFIX_LENGTH),
         name |-> Str(name),
         mode |-> Str(readString[buf, pMode, MODE_LENGTH]),
         uid |-> decodeOctal(readString[buf, pUid, UID_LENGTH]),
         gid |-> decodeOctal(readString[buf, pGid, GID_LENGTH]),
         size |-> size,
         paddedSize |-> PaddedSizeOf(size),
         mtime |-> Octal(pMtime, MTIME_LENGTH),
         checksum |-> Octal(pChecksum, CHECKSUM_LENGTH),
         type |-> Text(pType, TYPE_LENGTH),
         linkname |-> Text(pLinkname, LINKNAME_LENGTH),
         ustarFormat |-> Text(pUstar, USTARFORMAT_LENGTH),
         version |-> Text(pVersion, VERSION_LENGTH),
         uname |-> Text(pUname, UNAME_LENGTH),
         gname |-> Text(pGname, GNAME_LENGTH),
         devmajor |-> Octal(pDevmajor, DEVMAJOR_LENGTH),
         devminor |-> Octal(pDevminor, DEVMINOR_LENGTH) ]

\* Lines 80 and 91: the name field, or the pending long-link name.
NameAt(buf, pos, activeLongLink) ==
    IF Truthy(activeLongLink) THEN activeLongLink.s
    ELSE readString[buf, pos, NAME_LENGTH]

\* Lines 95-97: whether the fields after size are read.
continueRead(name, validFileTypes, globalPaxHeader, paxHeader) ==
    \/ name = LONG_LINK_FILENAME
    \/ Includes(name, "PaxHeader")
    \/ globalPaxHeader # Null
    \/ paxHeader # Null
    \/ MatchesSome(validFileTypes, Str(name))

\* The position of makeTarFile's stream when it returns: readString seeks
\* by the length of every field it reads (lines 80-84 and 109-119).
StreamPosition(pos, detail) ==
    LET short == pos + NAME_LENGTH + MODE_LENGTH + UID_LENGTH + GID_LENGTH + SIZE_LENGTH
    IN IF detail
       THEN short + MTIME_LENGTH + CHECKSUM_LENGTH + TYPE_LENGTH + LINKNAME_LENGTH
                  + USTARFORMAT_LENGTH + VERSION_LENGTH + UNAME_LENGTH + GNAME_LENGTH
                  + DEVMAJOR_LENGTH + DEVMINOR_LENGTH + NAMEPREFIX_LENGTH
       ELSE short

\* makeTarFile of variant A (lines 77-141).
makeTarFile(buf, pos, validFileTypes, activeLongLink, globalPaxHeader, paxHeader) ==
    LET name == NameAt(buf, pos, activeLongLink)
    IN TarFile(buf, pos, name,
               continueRead(name, validFileTypes, globalPaxHeader, paxHeader))

-----------------------------------------------------------------------------
(* PaxHeader *)

PAX_ERROR == "Invalid PAX header data format."
USTAR_ERROR == "file is not in ustar format"
TYPE_ERROR == "TypeError"

\* fieldText.match(/^\d+ ([^=]+)=(.*)\n$/): <<>> when the text does not match,
\* else <<fieldName, fieldValue>>.  The run of digits must be followed by a
\* blank, the key is the text up to the first '=', and the value is the rest
\* without the final newline; '.' matches neither \n nor \r.
PaxFieldMatch[fieldText \in STRING] ==
    LET sp == IndexOf[fieldText, " "]
        rest == Slice[fieldText, sp + 1, Len(fieldText)]
        eq == IndexOf[rest, "="]
        value == Slice[rest, eq + 1, Len(rest) - 1]
    IN IF /\ sp >= 1
          /\ AllDecDigits[Slice[fieldText, 0, sp]]
          /\ eq >= 1
          /\ EndsWith[rest, "\n"]
          /\ ~Includes(value, "\n")
          /\ ~Includes(value, "\r")
       THEN <<Slice[rest, 0, eq], value>>
       ELSE <<>>

\* The field pushed for one matched record (lines 175-190).
PaxField(fieldName, fieldValue) ==
    LET fieldNum == IF Len(fieldValue) = 0 THEN 0
                    ELSE IF AllDecDigits[fieldValue] THEN DigitsValue[fieldValue, 10]
                    ELSE 0
    IN IF fieldNum # 0 THEN [name |-> fieldName, value |-> Num(fieldNum)]
       ELSE [name |-> fieldName, value |-> Str(fieldValue)]

\* PaxHeader.parse: [error, fields]; error is "" when every record matched.
RECURSIVE PaxParseFrom(_, _)
PaxParseFrom(bytes, fields) ==
    IF Len(bytes) = 0 THEN [error |-> "", fields |-> fields]
    ELSE LET fieldLength == StringToNumber[Slice[bytes, 0, IndexOf[bytes, " "]]]
             fieldText == Slice[bytes, 0, ToInteger(fieldLength)]
             fieldMatch == PaxFieldMatch[fieldText]
         IN IF fieldMatch = <<>> THEN [error |-> PAX_ERROR, fields |-> fields]
            ELSE PaxParseFrom(Slice[bytes, ToInteger(fieldLength), Len(bytes)],
                              Append(fields, PaxField(fieldMatch[1], fieldMatch[2])))

PaxHeaderParse(buffer) == PaxParseFrom(buffer, <<>>)

\* ApplyField without the renaming of path and linkpath.
ApplyFieldSameName(file, field) ==
    LET typeOf == IF field.name \in DOMAIN file THEN file[field.name].t
                  ELSE "undefined"
    IN IF typeOf = "string" \/ typeOf = "number"
       THEN [file EXCEPT ![field.name] = field.value]
       ELSE file

\* One iteration of the loop of PaxHeader.applyHeader.
ApplyField(file, field) ==
    LET fieldName == CASE field.name = "path" -> "name"
                       [] field.name = "linkpath" -> "linkname"
                       [] OTHER -> field.name
        f1 == IF field.name = "path" /\ file.prefix # Undefined
              THEN [file EXCEPT !.prefix = Undefined] ELSE file
        typeOf == IF fieldName \in DOMAIN f1 THEN f1[fieldName].t ELSE "undefined"
    IN IF typeOf = "string" \/ typeOf = "number"
       THEN [f1 EXCEPT ![fieldName] = field.value]
       ELSE f1

RECURSIVE applyHeader(_, _)
applyHeader(file, fields) ==
    IF fields = <<>> THEN file
    ELSE applyHeader(ApplyField(file, Head(fields)), Tail(fields))

-----------------------------------------------------------------------------
(* untarBuffer, UntarFileStream.readNextFile *)

\* [error, file]: the UncompressedFile made of a TarFile and its content.
untarBuffer(arrayBuffer, tarfile) ==
    IF tarfile.ustarFormat.t # "string"
    THEN [error |-> TYPE_ERROR, file |-> Null]
    ELSE IF ~(IndexOf[tarfile.ustarFormat.s, "ustar"] > -1)
    THEN [error |-> USTAR_ERROR, file |-> Null]
    ELSE [error |-> "",
          file |-> [name |-> IF Truthy(tarfile.prefix)
                             THEN Plus(Plus(tarfile.prefix, Str("/")), tarfile.name)
                             ELSE tarfile.name,
                    mode |-> ParseInt8(tarfile.mode),
                    buffer |-> arrayBuffer]]

-----------------------------------------------------------------------------
(* Archives the decoder is run on.  An archive is written the way a tar    *)
(* writer lays it out (header layout of makeTarFile, lines 80-119): one    *)
(* 512-byte header block per entry, the content padded with zero bytes to  *)
(* the next 512-byte boundary, and two zero blocks at the end.             *)

OctalText[n \in Nat] ==
    IF n < 8 THEN CharAt(OctDigits, n + 1)
    ELSE OctalText[n \div 8] \o CharAt(OctDigits, (n % 8) + 1)

\* s followed by zero bytes up to n bytes.
Field(s, n) == s \o Slice[NUL512, 0, n - Len(s)]

\* n as octal digits, zero-filled to width - 1 digits, then a zero byte.
OctalField(n, width) ==
    LET digits == OctalText[n]
    IN Field(Slice["00000000000", 0, width - 1 - Len(digits)] \o digits, width)

HeaderBlock(e) ==
    Field(e.name, NAME_LENGTH)
    \o Field(e.mode, MODE_LENGTH)
    \o OctalField(0, UID_LENGTH)
    \o OctalField(0, GID_LENGTH)
    \o OctalField(e.size, SIZE_LENGTH)
    \o OctalField(0, MTIME_LENGTH)
    \o OctalField(0, CHECKSUM_LENGTH)
    \o Field(e.type, TYPE_LENGTH)
    \o Field(e.linkname, LINKNAME_LENGTH)
    \o Field(e.magic, USTARFORMAT_LENGTH)
    \o Field("00", VERSION_LENGTH)
    \o Field("", UNAME_LENGTH)
    \o Field("", GNAME_LENGTH)
    \o OctalField(0, DEVMAJOR_LENGTH)
    \o OctalField(0, DEVMINOR_LENGTH)
    \o Field(e.prefix, NAMEPREFIX_LENGTH)
    \o Field("", 12)

PaddedLength(n) == ((n + HEADER_SIZE - 1) \div HEADER_SIZE) * HEADER_SIZE

\* The content of an entry, padded block by block.
DataBlocks[data \in STRING] ==
    IF Len(data) = 0 THEN ""
    ELSE IF Len(data) <= HEADER_SIZE THEN Field(data, HEADER_SIZE)
    ELSE SubSeq(data, 1, HEADER_SIZE) \o DataBlocks[SubSeq(data, HEADER_SIZE + 1, Len(data))]

EntryBytes(e) == HeaderBlock(e) \o DataBlocks[e.data]

RECURSIVE EntriesBytes(_)
EntriesBytes(es) ==
    IF es = <<>> THEN "" ELSE EntryBytes(Head(es)) \o EntriesBytes(Tail(es))

ArchiveOf(es) == EntriesBytes(es) \o NUL512 \o NUL512

\* The offset of the header of entry i in ArchiveOf(es).
RECURSIVE EntryOffset(_, _)
EntryOffset(es, i) ==
    IF i = 1 THEN 0
    ELSE EntryOffset(es, i - 1) + HEADER_SIZE + PaddedLength(Len(es[i - 1].data))

Entry(name, type, data) ==
    [name |-> name, mode |-> "0000644", type |-> type, size |-> Len(data),
     data |-> data, linkname |-> "", magic |-> "ustar", prefix |-> ""]

\* One PAX record "%d %s=%s\n" whose length counts itself.
PaxRecord(key, value) ==
    LET body == " " \o key \o "=" \o value \o "\n"
        n == Len(body)
        len == IF n + 1 < 10 THEN n + 1 ELSE IF n + 2 < 100 THEN n + 2 ELSE n + 3
    IN NatToString[len] \o body

Text64 == "abcdefghijklmnopqrstuvwxyzABCDEFGHIJKLMNOPQRSTUVWXYZ0123456789+-"
Text512 == Text64 \o Text64 \o Text64 \o Text64 \o Text64 \o Text64 \o Text64 \o Text64
\* 600 bytes of content: two blocks.
Text600 == Text512 \o SubSeq(Text512, 1, 88)

RegExpJson == [text |-> ".json", atEnd |-> TRUE]
RegExpTxt == [text |-> ".txt", atEnd |-> TRUE]

-----------------------------------------------------------------------------
(* State *)

VARIABLES
    entries,              \* the entries the archive was written from
    file,                 \* the File: the bytes of the archive
    validFileTypes,       \* Tsunami.validFileTypes
    excludeInvalidFiles,  \* Tsunami.excludeInvalidFiles
    cacheSize,            \* Tsunami.cacheSize
    files,                \* Tsunami.files
    fileOffset,           \* untar: fileOffset
    activeLongLink,       \* untar: activeLongLink
    paxHeader,            \* untar: paxHeader
    globalPaxHeader,      \* untar: globalPaxHeader
    header,               \* untar: header
    buffer,               \* untar: buffer
    cacheOffset,          \* untar: cacheOffset
    slice,                \* untar: slice, the Blob whose read is awaited
    pc,                   \* where untar stands
    error,                \* the message of the Error untar threw, "" when none
    first,                \* the outcome of an earlier untar of the same file
    fileNames,            \* Tsunami.fileNames (variant B)
    needsHeader,          \* untar: needsHeader (variant B)
    decoded,              \* history: the file offsets of the headers decoded
    other                 \* the locals of a second untar call on the same Tsunami

vars == <<entries, file, validFileTypes, excludeInvalidFiles, cacheSize, files,
          fileOffset, activeLongLink, paxHeader, globalPaxHeader, header, buffer,
          cacheOffset, slice, pc, error, first, fileNames, needsHeader,
          decoded, other>>

config == <<entries, file, validFileTypes, excludeInvalidFiles, cacheSize, first, other>>

\* What only variant B has, and what only variant A has.
variantB == <<fileNames, needsHeader>>
variantA == <<paxHeader, globalPaxHeader>>

-----------------------------------------------------------------------------
(* Variant A: Tsunami.untar, lines 358-464 *)

\* The file offset of the first byte of buffer: the window read last ends
\* at fileOffset.
WindowOffset == fileOffset - Len(buffer)

\* new Tsunami(validFileTypes, excludeInvalidFiles, cacheSize) and the locals
\* of untar(file) before its loop; es are the entries the file was written from.
Start(es, bytes, types, exclude, size) ==
    /\ entries = es
    /\ file = bytes
    /\ validFileTypes = types
    /\ excludeInvalidFiles = exclude
    /\ cacheSize = size
    /\ files = <<>>
    /\ fileOffset = 0
    /\ activeLongLink = Null
    /\ paxHeader = Null
    /\ globalPaxHeader = Null
    /\ header = Null
    /\ buffer = ""
    /\ cacheOffset = 0
    /\ slice = Null
    /\ pc = "loop"
    /\ error = ""
    /\ first = Null
    /\ fileNames = <<>>
    /\ needsHeader = TRUE
    /\ decoded = <<>>
    /\ other = Null

\* IssueRead without the update of fileOffset of line 377.
IssueReadSameOffset ==
    /\ pc = "loop"
    /\ fileOffset < Len(file)
    /\ LET unusedCache == Len(buffer)
           start == RelIndex(fileOffset - unusedCache, Len(file))
           end == IF Len(file) - fileOffset >= cacheSize
                  THEN RelIndex(fileOffset + cacheSize, Len(file))
                  ELSE Len(file)
       IN slice' = [start |-> start, end |-> end]
    /\ cacheOffset' = 0
    /\ pc' = "await"
    /\ UNCHANGED <<config, decoded, variantB, files, fileOffset, activeLongLink, paxHeader,
                   globalPaxHeader, header, buffer, error>>

\* Lines 365-377: the loop test, the slice to read and the new fileOffset.
IssueRead ==
    /\ pc = "loop"
    /\ fileOffset < Len(file)
    /\ LET unusedCache == Len(buffer)
           start == RelIndex(fileOffset - unusedCache, Len(file))
           end == IF Len(file) - fileOffset >= cacheSize
                  THEN RelIndex(fileOffset + cacheSize, Len(file))
                  ELSE Len(file)
           sliceSize == Max(end - start, 0)
       IN /\ slice' = [start |-> start, end |-> end]
          /\ fileOffset' = fileOffset + sliceSize - unusedCache
    /\ cacheOffset' = 0
    /\ pc' = "await"
    /\ UNCHANGED <<config, decoded, variantB, files, activeLongLink, paxHeader, globalPaxHeader,
                   header, buffer, error>>

\* Line 378: the awaited read completes.
ReadComplete ==
    /\ pc = "await"
    /\ buffer' = Slice[file, slice.start, slice.end]
    /\ slice' = Null
    /\ pc' = "inner"
    /\ UNCHANGED <<config, decoded, variantB, files, fileOffset, activeLongLink, paxHeader,
                   globalPaxHeader, header, cacheOffset, error>>

\* Line 365 with the test false: untar returns.
Return ==
    /\ pc = "loop"
    /\ ~(fileOffset < Len(file))
    /\ pc' = "done"
    /\ UNCHANGED <<config, decoded, variantB, files, fileOffset, activeLongLink, paxHeader,
                   globalPaxHeader, header, buffer, cacheOffset, slice, error>>

\* DecodedHeader without the pending global PAX header.
DecodedHeaderLocalOnly ==
    LET made == makeTarFile(buffer, cacheOffset, validFileTypes, activeLongLink,
                            globalPaxHeader, paxHeader)
    IN IF paxHeader # Null THEN applyHeader(made, paxHeader.fields) ELSE made

\* Lines 383-397: the header made from the window, with the pending global
\* and local PAX headers applied.
DecodedHeader ==
    LET made == makeTarFile(buffer, cacheOffset, validFileTypes, activeLongLink,
                            globalPaxHeader, paxHeader)
        g == IF globalPaxHeader # Null THEN applyHeader(made, globalPaxHeader.fields)
             ELSE made
    IN IF paxHeader # Null THEN applyHeader(g, paxHeader.fields) ELSE g

\* Whether the header at the window offset has its detail read.
DetailRead ==
    continueRead(NameAt(buffer, cacheOffset, activeLongLink), validFileTypes,
                 globalPaxHeader, paxHeader)

\* DecodeHeader going on from where makeTarFile's stream stopped.
DecodeHeaderToStreamPosition ==
    /\ pc = "inner"
    /\ Len(buffer) - cacheOffset >= HEADER_SIZE
    /\ header = Null
    /\ header' = DecodedHeader
    /\ activeLongLink' = Null
    /\ paxHeader' = Null
    /\ cacheOffset' = StreamPosition(cacheOffset, DetailRead)
    /\ decoded' = Append(decoded, WindowOffset + cacheOffset)
    /\ pc' = "entry"
    /\ UNCHANGED <<config, variantB, files, fileOffset, globalPaxHeader, buffer, slice, error>>

\* Lines 380-399: the inner loop is entered with no header pending.
DecodeHeader ==
    /\ pc = "inner"
    /\ Len(buffer) - cacheOffset >= HEADER_SIZE
    /\ header = Null
    /\ header' = DecodedHeader
    /\ activeLongLink' = Null
    /\ paxHeader' = Null
    /\ cacheOffset' = cacheOffset + HEADER_SIZE
    /\ decoded' = Append(decoded, WindowOffset + cacheOffset)
    /\ pc' = "entry"
    /\ UNCHANGED <<config, variantB, files, fileOffset, globalPaxHeader, buffer, slice, error>>

\* AtEntry of a loop that goes on with the kept bytes without awaiting the
\* read it has issued.
AtEntryWhileReading ==
    \/ pc = "entry"
    \/ /\ pc \in {"inner", "await"}
       /\ Len(buffer) - cacheOffset >= HEADER_SIZE
       /\ header # Null

\* The inner loop stands at line 405 with a header: one was just decoded, or
\* the loop was entered with the header a previous window left pending.
AtEntry ==
    \/ pc = "entry"
    \/ pc = "inner" /\ Len(buffer) - cacheOffset >= HEADER_SIZE /\ header # Null

isRegularFile(h) == h.type \in {Str(""), Str("0"), Str("5")}
hasValidName(h) == isValidName(h.name)
isValidType(h) == MatchesSome(validFileTypes, h.name)

\* Lines 409-410.
Skipped(h) == isRegularFile(h) /\ hasValidName(h) /\ ~isValidType(h)

\* Lines 420-422 and 453-455: the offset after the content of h.
AfterContent(offset, h) ==
    IF Greater(h.size, Num(0)) /\ ~IsNaN(ToNumber(h.size))
    THEN offset + h.paddedSize.n
    ELSE offset

\* Lines 412-416.
Placeholder(h) == [name |-> h.name, mode |-> ParseInt8(h.mode), buffer |-> ""]

\* Lines 409-425: a regular entry no pattern matches.
SkipEntry ==
    /\ AtEntry
    /\ Skipped(header)
    /\ files' = IF ~excludeInvalidFiles THEN Append(files, Placeholder(header))
                ELSE files
    /\ cacheOffset' = AfterContent(cacheOffset, header)
    /\ header' = Null
    /\ pc' = "inner"
    /\ UNCHANGED <<config, decoded, variantB, fileOffset, activeLongLink, paxHeader, globalPaxHeader,
                   buffer, slice, error>>

\* Deferred of a loop that never waits for the rest of an entry.
DeferredNever(h) == FALSE

\* Line 429.
Deferred(h) == Less(Num(Len(buffer) - cacheOffset), h.paddedSize)

\* Lines 427-431: the content is not in the window yet.
DeferEntry ==
    /\ AtEntry
    /\ ~Skipped(header)
    /\ Deferred(header)
    /\ pc' = "carry"
    /\ UNCHANGED <<config, decoded, variantB, files, fileOffset, activeLongLink, paxHeader,
                   globalPaxHeader, header, buffer, cacheOffset, slice, error>>

\* ContentBuffer reading the padded length instead of the size: with it the
\* content of an entry carries its zero padding.
ContentBufferPadded(h) ==
    Slice[buffer, cacheOffset, ToInteger(Plus(Num(cacheOffset), h.paddedSize))]

\* Line 433.
ContentBuffer(h) ==
    Slice[buffer, cacheOffset, ToInteger(Plus(Num(cacheOffset), h.size))]

\* LongLinkName keeping the last byte of the marker's content.
LongLinkNameWhole(longLink) == Str(longLink.buffer)

\* Lines 443-445: the decoded content of a long-link marker without its last
\* byte.
LongLinkName(longLink) == Str(Slice[longLink.buffer, 0, -1])

\* Lines 432-452: what reading the content of h does to the pending state
\* and to files; error is the message of the Error thrown, "" when none.
ReadResult(h) ==
    LET content == ContentBuffer(h)
        same == [error |-> "", files |-> files, activeLongLink |-> activeLongLink,
                 paxHeader |-> paxHeader, globalPaxHeader |-> globalPaxHeader]
        pax == PaxHeaderParse(content)
        file1 == untarBuffer(content, h)
    IN IF ~hasValidName(h) THEN same
       ELSE CASE h.type = Str("g") ->
                   IF pax.error # "" THEN [same EXCEPT !.error = pax.error]
                   ELSE [same EXCEPT !.globalPaxHeader = [fields |-> pax.fields]]
              [] h.type = Str("x") ->
                   IF pax.error # "" THEN [same EXCEPT !.error = pax.error]
                   ELSE [same EXCEPT !.paxHeader = [fields |-> pax.fields]]
              [] h.type = Str("L") ->
                   IF file1.error # "" THEN [same EXCEPT !.error = file1.error]
                   ELSE [same EXCEPT !.activeLongLink = LongLinkName(file1.file)]
              [] OTHER ->
                   IF ~isValidType(h) THEN same
                   ELSE IF file1.error # "" THEN [same EXCEPT !.error = file1.error]
                   ELSE [same EXCEPT !.files = Append(files, file1.file)]

\* Lines 432-456: the content is in the window.
ReadEntry ==
    /\ AtEntry
    /\ ~Skipped(header)
    /\ ~Deferred(header)
    /\ \E r \in {ReadResult(header)} :
          /\ files' = r.files
          /\ activeLongLink' = r.activeLongLink
          /\ paxHeader' = r.paxHeader
          /\ globalPaxHeader' = r.globalPaxHeader
          /\ error' = r.error
          /\ IF r.error # ""
             THEN /\ pc' = "error"
                  /\ UNCHANGED <<header, cacheOffset>>
             ELSE /\ pc' = "inner"
                  /\ header' = Null
                  /\ cacheOffset' = AfterContent(cacheOffset, header)
    /\ UNCHANGED <<config, decoded, variantB, fileOffset, buffer, slice>>

\* EndWindow without the correction of fileOffset of lines 459-461.
EndWindowSameOffset ==
    /\ \/ pc = "carry"
       \/ pc = "inner" /\ ~(Len(buffer) - cacheOffset >= HEADER_SIZE)
    /\ buffer' = Slice[buffer, cacheOffset, Len(buffer)]
    /\ pc' = "loop"
    /\ UNCHANGED <<config, decoded, variantB, files, fileOffset, activeLongLink,
                   paxHeader, globalPaxHeader, header, cacheOffset, slice, error>>

\* Lines 458-462: the inner loop has ended; the rest of the window is kept.
EndWindow ==
    /\ \/ pc = "carry"
       \/ pc = "inner" /\ ~(Len(buffer) - cacheOffset >= HEADER_SIZE)
    /\ fileOffset' = IF cacheOffset > Len(buffer)
                     THEN fileOffset + (cacheOffset - Len(buffer))
                     ELSE fileOffset
    /\ buffer' = Slice[buffer, cacheOffset, Len(buffer)]
    /\ pc' = "loop"
    /\ UNCHANGED <<config, decoded, variantB, files, activeLongLink, paxHeader, globalPaxHeader,
                   header, cacheOffset, slice, error>>

Next ==
    \/ IssueRead
    \/ ReadComplete
    \/ Return
    \/ DecodeHeader
    \/ SkipEntry
    \/ DeferEntry
    \/ ReadEntry
    \/ EndWindow

-----------------------------------------------------------------------------
(* Variant B: the second Tsunami of the file (lines 467-1049) *)

\* isValidNameB without the test for ".".
isValidNameNotEmpty(fileName) == fileName # Str("")

\* Lines 521-523.
isValidNameB(fileName) == fileName # Str("") /\ fileName # Str(".")

\* makeTarFile of variant B (lines 547-610).
makeTarFileB(buf, pos, types, longLink) ==
    LET name == NameAt(buf, pos, longLink)
    IN TarFile(buf, pos, name,
               \/ name = LONG_LINK_FILENAME
               \/ MatchesSome(types, Str(name)))

STACK_ERROR == "Maximum call stack size exceeded"

\* UntarFileStream.hasNext at position 0 (lines 770-774).
hasNext(arrayBuffer, tarfile) ==
    0 + 4 < Len(arrayBuffer) /\ ~Includes(StringOf(tarfile.name), "PaxHeader")

\* UntarFileStream.readNextFile at position 0 (lines 779-865): [error, file].
\* For a PAX header type it calls itself again with the same TarFile: the
\* first parse throws, or the recursion has no end.
readNextFileB(arrayBuffer, tarfile) ==
    IF ~(IndexOf[tarfile.ustarFormat.s, "ustar"] > -1)
    THEN [error |-> USTAR_ERROR, file |-> Null]
    ELSE IF tarfile.type \in {Str("g"), Str("x")}
    THEN [error |-> IF PaxHeaderParse(Slice[arrayBuffer, 0, ToInteger(tarfile.size)]).error # ""
                    THEN PAX_ERROR ELSE STACK_ERROR,
          file |-> Null]
    ELSE [error |-> "",
          file |-> [name |-> IF Len(tarfile.prefix.s) > 0
                             THEN Plus(Plus(tarfile.prefix, Str("/")), tarfile.name)
                             ELSE tarfile.name,
                    buffer |-> IF tarfile.type \in {Str("0"), Str("")}
                               THEN Slice[arrayBuffer, 0, ToInteger(tarfile.size)]
                               ELSE arrayBuffer]]

\* untarBuffer of variant B (lines 526-533): [error, files].  arrayBuffer is
\* never longer than tarfile.size, so after one file the position, size
\* rounded up to a block, is at or past the end and hasNext is false.
untarBufferB(arrayBuffer, tarfile) ==
    IF ~hasNext(arrayBuffer, tarfile) THEN [error |-> "", files |-> <<>>]
    ELSE LET r == readNextFileB(arrayBuffer, tarfile)
         IN IF r.error # "" THEN [error |-> r.error, files |-> <<>>]
            ELSE [error |-> "", files |-> <<r.file>>]

\* Lines 908-926: the header a new Tsunami starts with.
InitialHeader ==
    [ prefix |-> Str(""), name |-> Str(""), mode |-> Str(""), uid |-> Num(0),
      gid |-> Num(0), size |-> Num(0), paddedSize |-> Num(0), mtime |-> Num(0),
      checksum |-> Num(0), type |-> Str(""), linkname |-> Str(""),
      ustarFormat |-> Str(""), version |-> Str(""), uname |-> Str(""),
      gname |-> Str(""), devmajor |-> Num(0), devminor |-> Num(0) ]

\* new Tsunami(types, exclude, size) of variant B, and the locals of
\* untar(file) before its loop.
StartB(es, bytes, types, exclude, size) ==
    /\ entries = es
    /\ file = bytes
    /\ validFileTypes = types
    /\ excludeInvalidFiles = exclude
    /\ cacheSize = size
    /\ files = <<>>
    /\ fileNames = <<>>
    /\ fileOffset = 0
    /\ needsHeader = TRUE
    /\ activeLongLink = Null
    /\ paxHeader = Null
    /\ globalPaxHeader = Null
    /\ header = InitialHeader
    /\ buffer = ""
    /\ cacheOffset = 0
    /\ slice = Null
    /\ pc = "loop"
    /\ error = ""
    /\ first = Null
    /\ decoded = <<>>
    /\ other = Null

\* Lines 961-970: the loop test, the slice to read, the new fileOffset, and
\* the test of this.buffer that chooses between lines 971-977 and 979-980;
\* untar then waits for the read.
IssueReadB ==
    /\ pc = "loop"
    /\ fileOffset < Len(file)
    /\ LET end == IF Len(file) - fileOffset >= cacheSize
                  THEN RelIndex(fileOffset + cacheSize, Len(file))
                  ELSE Len(file)
       IN /\ slice' = [start |-> fileOffset, end |-> end, merge |-> Len(buffer) > 0]
          /\ fileOffset' = fileOffset + Max(end - fileOffset, 0)
    /\ cacheOffset' = 0
    /\ pc' = "await"
    /\ UNCHANGED <<config, decoded, variantA, variantB, files, activeLongLink, header,
                   buffer, error>>

\* Lines 971-981: the read completes; the new bytes follow the bytes
\* this.buffer holds now (lines 972-977), or replace them (line 980).
ReadCompleteB ==
    /\ pc = "await"
    /\ buffer' = IF slice.merge THEN buffer \o Slice[file, slice.start, slice.end]
                  ELSE Slice[file, slice.start, slice.end]
    /\ slice' = Null
    /\ pc' = "inner"
    /\ UNCHANGED <<config, decoded, variantA, variantB, files, fileOffset, activeLongLink,
                   header, cacheOffset, error>>

\* Line 961 with the test false: untar returns.
ReturnB ==
    /\ pc = "loop"
    /\ ~(fileOffset < Len(file))
    /\ pc' = "done"
    /\ UNCHANGED <<config, decoded, variantA, variantB, files, fileOffset, activeLongLink,
                   header, buffer, cacheOffset, slice, error>>

\* Lines 982-993: a header is needed and 512 bytes are in the buffer.
DecodeHeaderB ==
    /\ pc = "inner"
    /\ Len(buffer) - cacheOffset >= HEADER_SIZE
    /\ needsHeader
    /\ header' = makeTarFileB(buffer, cacheOffset, validFileTypes, activeLongLink)
    /\ activeLongLink' = Null
    /\ cacheOffset' = cacheOffset + HEADER_SIZE
    /\ decoded' = Append(decoded, WindowOffset + cacheOffset)
    /\ pc' = "entry"
    /\ UNCHANGED <<config, variantA, variantB, files, fileOffset, buffer, slice,
                   error>>

\* The inner loop stands at line 994 with the header of the entry to handle.
AtEntryB ==
    \/ pc = "entry"
    \/ pc = "inner" /\ Len(buffer) - cacheOffset >= HEADER_SIZE /\ ~needsHeader

\* Lines 994-1000: the content is not in the buffer yet.
DeferEntryB ==
    /\ AtEntryB
    /\ Deferred(header)
    /\ needsHeader' = FALSE
    /\ pc' = "carry"
    /\ UNCHANGED <<config, decoded, variantA, fileNames, files, fileOffset, activeLongLink,
                   header, buffer, cacheOffset, slice, error>>

\* Lines 1041-1043 and the next turn of the inner loop.
NextEntryB ==
    /\ needsHeader' = TRUE
    /\ cacheOffset' = AfterContent(cacheOffset, header)
    /\ pc' = "inner"
    /\ UNCHANGED <<config, decoded, variantA, fileOffset, header, buffer, slice>>

\* Lines 1001-1009: the content of a long-link marker becomes the pending
\* name; files[0] of an empty list is undefined.
LongLinkB ==
    /\ AtEntryB
    /\ ~Deferred(header)
    /\ header.type = Str("L")
    /\ \E r \in {untarBufferB(ContentBuffer(header), header)} :
          IF r.error # "" \/ r.files = <<>>
          THEN /\ error' = IF r.error # "" THEN r.error ELSE TYPE_ERROR
               /\ pc' = "error"
               /\ UNCHANGED <<config, decoded, variantA, variantB, files, fileOffset,
                              activeLongLink, header, buffer, cacheOffset, slice>>
          ELSE /\ activeLongLink' = Str(Slice[r.files[1].buffer, 0, -1])
               /\ NextEntryB
               /\ UNCHANGED <<files, fileNames, error>>

\* Lines 1012-1017: whether the name is listed.
includeName(types, name) ==
    \/ Len(types) = 0
    \/ \E k \in 1..Len(types) : ~RegExpTest(types[k], name)

\* Lines 1010-1020: names only.
ListNameB ==
    /\ AtEntryB
    /\ ~Deferred(header)
    /\ header.type # Str("L")
    /\ excludeInvalidFiles /\ isValidNameB(header.name)
    /\ fileNames' = IF includeName(validFileTypes, header.name)
                    THEN Append(fileNames, StringOf(header.name))
                    ELSE fileNames
    /\ NextEntryB
    /\ UNCHANGED <<files, activeLongLink, error>>

\* Lines 1021-1040: the content of an entry that matches a pattern, or the
\* name alone of one that matches none.
ReadContentsB ==
    /\ AtEntryB
    /\ ~Deferred(header)
    /\ header.type # Str("L")
    /\ ~excludeInvalidFiles
    /\ \E r \in {IF MatchesSome(validFileTypes, header.name)
                 THEN untarBufferB(ContentBuffer(header), header)
                 ELSE [error |-> "",
                       files |-> IF isValidNameB(header.name)
                                 THEN <<[name |-> header.name, buffer |-> ""]>>
                                 ELSE <<>>]} :
          IF r.error # ""
          THEN /\ error' = r.error
               /\ pc' = "error"
               /\ UNCHANGED <<config, decoded, variantA, variantB, files, fileOffset,
                              activeLongLink, header, buffer, cacheOffset, slice>>
          ELSE /\ files' = files \o r.files
               /\ NextEntryB
               /\ UNCHANGED <<fileNames, activeLongLink, error>>

\* Lines 1010 and 1021 both false: names only, and the name is not valid.
IgnoreEntryB ==
    /\ AtEntryB
    /\ ~Deferred(header)
    /\ header.type # Str("L")
    /\ excludeInvalidFiles /\ ~isValidNameB(header.name)
    /\ NextEntryB
    /\ UNCHANGED <<files, fileNames, activeLongLink, error>>

\* Lines 1045-1046: the inner loop has ended; the rest of the buffer is kept.
EndWindowB ==
    /\ \/ pc = "carry"
       \/ pc = "inner" /\ ~(Len(buffer) - cacheOffset >= HEADER_SIZE)
    /\ buffer' = Slice[buffer, cacheOffset, Len(buffer)]
    /\ pc' = "loop"
    /\ UNCHANGED <<config, decoded, variantA, variantB, files, fileOffset, activeLongLink,
                   header, cacheOffset, slice, error>>

NextB ==
    \/ IssueReadB
    \/ ReadCompleteB
    \/ ReturnB
    \/ DecodeHeaderB
    \/ DeferEntryB
    \/ LongLinkB
    \/ ListNameB
    \/ ReadContentsB
    \/ IgnoreEntryB
    \/ EndWindowB

-----------------------------------------------------------------------------
(* Initial states *)

\* The most entries of an archive.
MaxEntries == 3

\* The archives of at most MaxEntries entries taken from pool.
ArchivesOf(pool) ==
    UNION {[1..n -> {pool[i] : i \in 1..Len(pool)}] : n \in 1..MaxEntries}

\* Window sizes: less than a header, one header, two headers.
SmallCacheSizes == {300, HEADER_SIZE, 2 * HEADER_SIZE}

\* The small windows and the single window that holds the whole archive.
CacheSizes(bytes) == SmallCacheSizes \cup {Len(bytes)}

FilterSets == {<<>>, <<RegExpJson>>, <<RegExpJson, RegExpTxt>>}

InitOf(pool, filterSets, modes) ==
    \E es \in ArchivesOf(pool), types \in filterSets, exclude \in modes :
        \E bytes \in {ArchiveOf(es)} :
            \E size \in CacheSizes(bytes) :
                Start(es, bytes, types, exclude, size)

\* Ordinary files with contents of 10, 5, 0 and 600 bytes, and a file whose
\* header has no ustar magic.
PlainPool ==
    << Entry("a.json", "0", "0123456789"),
       Entry("b.txt", "0", "hello"),
       Entry("c.json", "0", ""),
       Entry("big.txt", "0", Text600),
       [Entry("old.json", "0", "v7tar") EXCEPT !.magic = ""] >>

Init == InitOf(PlainPool, FilterSets, BOOLEAN)

Spec == Init /\ [][Next]_vars

\* Variant B: files of 10, 0 and 600 bytes, a directory entry named ".", and
\* a long-link marker.
PoolB ==
    << Entry("a.json", "0", "0123456789"),
       Entry("c.txt", "0", ""),
       Entry("big.md", "0", Text600),
       Entry(".", "5", ""),
       Entry(LONG_LINK_FILENAME, "L", "long/name.json" \o NUL) >>

InitB ==
    \E es \in ArchivesOf(PoolB), types \in FilterSets, exclude \in BOOLEAN :
        \E bytes \in {ArchiveOf(es)} :
            \E size \in CacheSizes(bytes) :
                StartB(es, bytes, types, exclude, size)

SpecB == InitB /\ [][NextB]_vars

\* The offset in the file of the header DecodeHeader has just decoded
\* (pc = "entry"): the window starts at fileOffset - Len(buffer).
HeaderOffset == WindowOffset + cacheOffset - HEADER_SIZE

\* The entry whose header is at offset pos, 0 when pos is no entry's header.
EntryAt(pos) ==
    IF \E i \in 1..Len(entries) : EntryOffset(entries, i) = pos
    THEN CHOOSE i \in 1..Len(entries) : EntryOffset(entries, i) = pos
    ELSE 0

-----------------------------------------------------------------------------
(* Archives with GNU long-link markers *)

\* A name of 115 bytes, too long for the name field.
LongName == "long/" \o Text64 \o "/" \o SubSeq(Text64, 1, 40) \o ".json"

\* The marker a GNU tar writes before an entry with a long name: the content
\* is the name and a terminating zero byte.
LongLinkMarker == Entry(LONG_LINK_FILENAME, "L", LongName \o NUL)

LongLinkPool ==
    << LongLinkMarker,
       Entry("a.json", "0", "0123456789"),
       Entry("b.txt", "0", "hello"),
       Entry("big.txt", "0", Text600) >>

InitLongLink == InitOf(LongLinkPool, {<<>>, <<RegExpJson>>, <<RegExpTxt>>}, BOOLEAN)

SpecLongLink == InitLongLink /\ [][Next]_vars

-----------------------------------------------------------------------------
(* Archives with PAX headers *)

PaxPath == "p/renamed.json"
PaxLinkpath == "target"

\* A local PAX header with a path and a linkpath record.
LocalPax ==
    Entry("PaxHeader/f.json", "x",
          PaxRecord("path", PaxPath) \o PaxRecord("linkpath", PaxLinkpath))

\* Two global PAX headers with different sets of keys.
GlobalPax1 ==
    Entry("PaxHeader/global1", "g",
          PaxRecord("uname", "root") \o PaxRecord("gname", "staff"))
GlobalPax2 == Entry("PaxHeader/global2", "g", PaxRecord("gname", "wheel"))

\* dir/f.json is written with a prefix and a linkname of its own.
PaxPool ==
    << LocalPax,
       GlobalPax1,
       GlobalPax2,
       [Entry("f.json", "0", "0123456789") EXCEPT !.prefix = "dir",
                                                  !.linkname = "orig"],
       Entry("b.txt", "0", "hello") >>

InitPax == InitOf(PaxPool, {<<RegExpJson>>, <<RegExpTxt>>}, BOOLEAN)

SpecPax == InitPax /\ [][Next]_vars

\* PAX headers with a malformed record: no space after the length; no
\* newline at the end; a length that reaches past the end of the record.  The
\* second one is a global header under the name git gives it.
PaxBadPool ==
    << Entry("PaxHeader/a.json", "x", "12path=abc\n"),
       Entry("pax_global_header", "g", "11 path=abc"),
       Entry("PaxHeader/b.txt", "x", "99 a=b\n"),
       Entry("PaxHeader/c.json", "x", "11 path=abc"),
       Entry("a.json", "0", "0123456789"),
       Entry("b.txt", "0", "hello") >>

InitPaxBad == InitOf(PaxBadPool, {<<RegExpJson>>, <<RegExpTxt>>}, BOOLEAN)

SpecPaxBad == InitPaxBad /\ [][Next]_vars

-----------------------------------------------------------------------------
(* The same file decoded twice, by two Tsunami objects that differ in their *)
(* cacheSize only: first through one window that holds the whole file,     *)
(* then through small windows.                                             *)

Finished == pc \in {"done", "error"}

\* What a caller sees of a finished untar: the Error, or the files.
Outcome == IF pc = "error" THEN [error |-> error, files |-> <<>>]
           ELSE [error |-> "", files |-> files]

\* new Tsunami(validFileTypes, excludeInvalidFiles, size).untar(file), once
\* the first untar has finished.
Rechunk ==
    /\ Finished
    /\ first = Null
    /\ \E size \in SmallCacheSizes : cacheSize' = size
    /\ first' = Outcome
    /\ files' = <<>>
    /\ fileOffset' = 0
    /\ activeLongLink' = Null
    /\ paxHeader' = Null
    /\ globalPaxHeader' = Null
    /\ header' = Null
    /\ buffer' = ""
    /\ cacheOffset' = 0
    /\ slice' = Null
    /\ pc' = "loop"
    /\ error' = ""
    /\ decoded' = <<>>
    /\ UNCHANGED <<entries, file, validFileTypes, excludeInvalidFiles, variantB, other>>

\* Ordinary files, and a local PAX header that gives the size of the entry
\* after it: the header of sized.json has 0 in its size field, as for a file
\* too large for the field, and 600 bytes of content follow it.
SizedPool ==
    << Entry("a.json", "0", "0123456789"),
       Entry("big.txt", "0", Text600),
       Entry("PaxHeader/sized.json", "x", PaxRecord("size", "600")),
       [Entry("sized.json", "0", Text600) EXCEPT !.size = 0] >>

InitRechunk ==
    \E es \in ArchivesOf(SizedPool), types \in FilterSets, exclude \in BOOLEAN :
        \E bytes \in {ArchiveOf(es)} : Start(es, bytes, types, exclude, Len(bytes))

NextRechunk == Next \/ Rechunk

SpecRechunk == InitRechunk /\ [][NextRechunk]_vars

-----------------------------------------------------------------------------
(* Properties of variant A on ordinary archives *)

\* C1: decoding the same file with the same filters and the same mode gives
\* the same ordered results, or the same error, whatever the window size:
\* the outcome through small windows equals the outcome through one window
\* that holds the whole file.
C1_SameOutcomeForEveryWindow ==
    (Finished /\ first # Null) => Outcome = first

\* An entry of an ordinary ustar file with a valid name.
Ordinary(e) ==
    /\ e.type = "0"
    /\ Includes(e.magic, "ustar")
    /\ isValidName(Str(e.name))
    /\ e.prefix = ""
    /\ e.size = Len(e.data)

OrdinaryArchive == \A i \in 1..Len(entries) : Ordinary(entries[i])

\* The content the results are to hold for entry e.
ExpectedContent(e) ==
    IF \E k \in 1..Len(validFileTypes) : RegExpTest(validFileTypes[k], Str(e.name))
    THEN e.data ELSE ""

\* C2: in content mode, untar of an archive of ordinary files with valid
\* names ends without an error and with one result per entry, in archive
\* order; the content of a result is the first size bytes of the entry's data
\* when the name matches a pattern, and is empty when it matches none.
C2_ContentModeResults ==
    (~excludeInvalidFiles /\ OrdinaryArchive) =>
        /\ pc # "error"
        /\ pc = "done" =>
              /\ Len(files) = Len(entries)
              /\ \A i \in 1..Len(entries) :
                    /\ files[i].name = Str(entries[i].name)
                    /\ files[i].buffer = ExpectedContent(entries[i])

\* C2 reached: a.json (10 bytes), b.txt (5 bytes), c.json (0 bytes) decoded
\* with the filter /\.json$/ through windows of one header.
C2_Witness ==
    /\ pc = "done"
    /\ ~excludeInvalidFiles
    /\ validFileTypes = <<RegExpJson>>
    /\ cacheSize = HEADER_SIZE
    /\ Len(entries) = 3
    /\ entries[1].name = "a.json" /\ entries[2].name = "b.txt"
    /\ entries[3].name = "c.json"
    /\ Len(files) = 3
    /\ Len(files[1].buffer) = 10 /\ files[2].buffer = "" /\ files[3].buffer = ""

\* C8: with excludeInvalidFiles = true no content is read or returned: every
\* result has an empty buffer.
C8_NoContentWhenExcluding ==
    excludeInvalidFiles => \A i \in 1..Len(files) : Len(files[i].buffer) = 0

\* The archive has an entry with a valid name and no ustar magic.
HasNonUstarEntry ==
    \E i \in 1..Len(entries) :
        /\ isValidName(Str(entries[i].name))
        /\ ~Includes(entries[i].magic, "ustar")

\* C10: untar of an archive that has a valid-named entry without the ustar
\* magic never completes; it ends with the not-ustar error.
C10_NonUstarAborts ==
    HasNonUstarEntry =>
        /\ pc # "done"
        /\ pc = "error" => error = USTAR_ERROR

-----------------------------------------------------------------------------
(* Long-link markers *)

\* Every long-link marker is immediately followed by an entry that is not a
\* marker.
MarkersFollowed ==
    \A i \in 1..Len(entries) :
        entries[i].type = "L" => i < Len(entries) /\ entries[i + 1].type # "L"

NamesOf(fs) == [k \in 1..Len(fs) |-> fs[k].name]

MatchesPattern(name) ==
    \E k \in 1..Len(validFileTypes) : RegExpTest(validFileTypes[k], Str(name))

\* The names of the results for the entries es, when pending is the content
\* of a marker just before them ("" when there is none): nothing for a
\* marker; an entry is named by the pending long name, else by its header;
\* with excludeInvalidFiles set only the names that match a pattern are kept.
RECURSIVE ExpectedNames(_, _)
ExpectedNames(es, pending) ==
    IF es = <<>> THEN <<>>
    ELSE IF Head(es).type = "L"
    THEN ExpectedNames(Tail(es), SubSeq(Head(es).data, 1, Len(Head(es).data) - 1))
    ELSE LET name == IF pending # "" THEN pending ELSE Head(es).name
         IN (IF ~excludeInvalidFiles \/ MatchesPattern(name)
             THEN <<Str(name)>> ELSE <<>>)
            \o ExpectedNames(Tail(es), "")

Markers == {i \in 1..Len(entries) : entries[i].type = "L"}

-----------------------------------------------------------------------------
(* PAX headers *)

LastGlobalBefore(pos) ==
    LET before == {j \in 1..Len(entries) :
                      entries[j].type = "g" /\ EntryOffset(entries, j) < pos}
    IN IF before = {} THEN 0
       ELSE CHOOSE j \in before : \A k \in before : k <= j

\* C5: every header decoded after a global PAX header carries the overrides
\* of the last global PAX header before it, and none of an earlier one,
\* whatever local PAX headers lie between.
C5_GlobalPaxUntilReplaced ==
    pc = "entry" =>
        LET g == LastGlobalBefore(HeaderOffset)
        IN /\ header.uname = (IF g > 0 /\ entries[g] = GlobalPax1
                              THEN Str("root") ELSE Str(""))
           /\ header.gname = (IF g = 0 THEN Str("")
                              ELSE IF entries[g] = GlobalPax1 THEN Str("staff")
                              ELSE Str("wheel"))
           /\ (g = 0) = (globalPaxHeader = Null)

\* C5 reached: the header decoded after the global headers 1 and 2 has the
\* group of header 2 and not the user of header 1.
C5_Witness ==
    /\ pc = "entry"
    /\ Len(entries) = 3
    /\ entries[1] = GlobalPax1 /\ entries[2] = GlobalPax2
    /\ EntryAt(HeaderOffset) = 3
    /\ header.gname = Str("wheel")
    /\ header.uname = Str("")

\* Contents that are not a PAX record "<length> <key>=<value>\n" of the
\* declared length: no space after the length; no newline at the end; a
\* length that reaches past the end of the record.
MalformedRecords == {"12path=abc\n", "11 path=abc", "99 a=b\n"}

\* The archive has a PAX header entry with a malformed record.
HasMalformedPax ==
    \E i \in 1..Len(entries) :
        /\ entries[i].type \in {"g", "x"}
        /\ entries[i].data \in MalformedRecords

\* C9: untar of an archive that has a PAX header entry with a malformed
\* record never completes; it ends with the malformed-PAX error.
C9_MalformedPaxAborts ==
    HasMalformedPax =>
        /\ pc # "done"
        /\ pc = "error" => error = PAX_ERROR

-----------------------------------------------------------------------------
(* Variant B, names only *)

\* Every entry is a plain file or directory.
PlainArchive == \A i \in 1..Len(entries) : entries[i].type \in {"0", "5"}

\* The entries with a valid name: not empty and not ".".
ValidNamed(es) ==
    LET valid(e) == e.name # "" /\ e.name # "."
    IN SelectSeq(es, valid)

\* The valid-named entries that match none of the patterns.
Unmatched(es) ==
    LET none(e) == ~MatchesPattern(e.name)
    IN SelectSeq(ValidNamed(es), none)

EntryNames(es) == [k \in 1..Len(es) |-> es[k].name]

\* C6: in names-only mode with at least one pattern, fileNames after untar
\* is the list, in archive order, of the valid names that match none of the
\* patterns.
C6_NamesThatMatchNoPattern ==
    (excludeInvalidFiles /\ validFileTypes # <<>> /\ PlainArchive /\ pc = "done") =>
        fileNames = EntryNames(Unmatched(entries))

\* C7: in names-only mode with no pattern, untar of an archive of plain
\* entries ends without an error and fileNames is the list of the entries'
\* valid names in archive order, with nothing for the zero blocks.
C7_AllValidNames ==
    (excludeInvalidFiles /\ validFileTypes = <<>> /\ PlainArchive) =>
        /\ pc # "error"
        /\ pc = "done" => fileNames = EntryNames(ValidNamed(entries))

\* C7 reached: big.md (600 bytes), "." and a.json listed through windows of
\* 300 bytes.
C7_Witness ==
    /\ pc = "done"
    /\ excludeInvalidFiles
    /\ validFileTypes = <<>>
    /\ cacheSize = 300
    /\ EntryNames(entries) = <<"big.md", ".", "a.json">>
    /\ fileNames = <<"big.md", "a.json">>

-----------------------------------------------------------------------------
(* Sizes and offsets of variant A *)

\* C11: when the header of an entry has been decoded and the pending PAX
\* overrides applied to it, its paddedSize is its size rounded up to a
\* multiple of 512.
C11_PaddedSizeOfFinalSize ==
    (pc = "entry" /\ EntryAt(HeaderOffset) > 0) =>
        /\ header.size.t = "number" /\ ~IsNaN(header.size)
        /\ header.paddedSize = Num(PaddedLength(header.size.n))

\* A read of the file has been issued and has not completed.
ReadOutstanding == slice # Null

\* C12: the step taken while a read is outstanding is the completion of that
\* read, which decodes nothing; and a read is issued only when none is
\* outstanding and the inner loop over the previous window has ended, on a
\* deferred header or with less than a header left.
C12_OneReadAtATime ==
    [][/\ ReadOutstanding =>
            /\ ~ReadOutstanding'
            /\ UNCHANGED <<files, header, cacheOffset, activeLongLink, paxHeader,
                           globalPaxHeader, decoded, fileOffset, error>>
       /\ ReadOutstanding' =>
            /\ ~ReadOutstanding
            /\ header # Null \/ Len(buffer) < HEADER_SIZE]_vars

\* C12 reached: a read is outstanding while a deferred header is pending and
\* results of earlier windows are in files.
C12_Witness ==
    /\ ReadOutstanding
    /\ header # Null
    /\ Len(files) > 0
    /\ cacheSize = 300

-----------------------------------------------------------------------------
(* Deferral *)

\* The bytes of the window after the window offset.
Remaining == Len(buffer) - cacheOffset

\* The padded span of the pending header is larger than what remains.
SpanMissing ==
    /\ header # Null
    /\ ~IsNaN(header.paddedSize)
    /\ Remaining < header.paddedSize.n

\* C13: a step taken at an entry that is not skipped and whose padded span
\* is not in the window changes neither files nor the pending header, PAX
\* sets and long-link name; a header is decoded only when none is pending,
\* at an offset beyond every header decoded before; a step adds at most one
\* result and only by consuming the pending header; and a header that is
\* not skipped is consumed only in a window that holds its padded span.
C13_DeferKeepsEverything ==
    [][/\ (AtEntry /\ ~Skipped(header) /\ SpanMissing) =>
            UNCHANGED <<files, header, globalPaxHeader, paxHeader, activeLongLink>>
       /\ decoded' # decoded =>
            /\ header = Null
            /\ Len(decoded') = Len(decoded) + 1
            /\ \A k \in 1..Len(decoded) : decoded[k] < decoded'[Len(decoded')]
       /\ files' # files =>
            /\ Len(files') = Len(files) + 1
            /\ header # Null /\ header' = Null
       /\ (header # Null /\ header' = Null /\ ~Skipped(header)) => ~SpanMissing]_vars

\* C13 reached: in a later window the deferred header of f.json is still
\* pending, with the global PAX set, and its padded span is in the window.
C13_Witness ==
    /\ pc = "inner"
    /\ cacheOffset = 0
    /\ cacheSize = 300
    /\ header # Null
    /\ header.name = Str("f.json")
    /\ globalPaxHeader # Null
    /\ ~SpanMissing
    /\ Len(decoded) = 2

-----------------------------------------------------------------------------
(* Skipping past the end of the window *)

\* The file offset after the entry whose header was decoded last: the
\* offset of that header, the header block and the padded content.
AfterLastDecoded ==
    LET at == decoded[Len(decoded)]
    IN at + HEADER_SIZE + PaddedLength(Len(entries[EntryAt(at)].data))

\* C14: when a skip has moved the window offset past the end of the window,
\* the step that ends the window keeps no bytes and sets fileOffset to the
\* offset after the skipped entry; and every read starts at fileOffset
\* minus the length of the kept bytes, so the read after such a skip starts
\* right after the skipped content.
C14_SkipPastWindow ==
    [][/\ (pc = "inner" /\ cacheOffset > Len(buffer)) =>
            /\ EntryAt(decoded[Len(decoded)]) > 0
            /\ buffer' = ""
            /\ fileOffset' = AfterLastDecoded
            /\ fileOffset' = fileOffset + (cacheOffset - Len(buffer))
       /\ (~ReadOutstanding /\ ReadOutstanding') =>
            slice'.start = fileOffset - Len(buffer)]_vars

\* C14 reached: with windows of one header the 600 bytes of big.txt were
\* skipped and the next read starts 1536 bytes after its header.
C14_Witness ==
    /\ cacheSize = HEADER_SIZE
    /\ ReadOutstanding
    /\ buffer = ""
    /\ header = Null
    /\ Len(files) > 0
    /\ files[Len(files)].name = Str("big.txt")
    /\ files[Len(files)].buffer = ""
    /\ slice.start = decoded[Len(decoded)] + 3 * HEADER_SIZE

-----------------------------------------------------------------------------
(* The offset invariant *)

\* Every entry's content length is the one its header declares, in the size
\* field or in a size record of the PAX header right before it.
SizesDeclared ==
    \A i \in 1..Len(entries) :
        \/ entries[i].size = Len(entries[i].data)
        \/ /\ i > 1
           /\ entries[i - 1].type = "x"
           /\ entries[i - 1].data = PaxRecord("size", NatToString[Len(entries[i].data)])

\* C15: in an archive whose sizes are declared, outside a read, the kept bytes are the archive bytes that end at
\* fileOffset (or further on, after a skip past the window, none); and the
\* k-th header decoded is the block at the offset of the k-th entry of the
\* archive: the sum of 512 plus the padded content length over the entries
\* before it, a multiple of 512.  The blocks decoded after the last entry
\* are the zero blocks that end the archive.
C15_OffsetInvariant ==
    SizesDeclared =>
    /\ ~ReadOutstanding => buffer = Slice[file, fileOffset - Len(buffer), fileOffset]
    /\ \A k \in 1..Len(decoded) :
          /\ decoded[k] % HEADER_SIZE = 0
          /\ k <= Len(entries) => decoded[k] = EntryOffset(entries, k)
          /\ k > Len(entries) => decoded[k] >= EntryOffset(entries, Len(entries) + 1)

-----------------------------------------------------------------------------
(* The header block is consumed whole *)

\* C16: the step that decodes a header moves the window offset on by 512,
\* whether makeTarFile's stream stopped after the size field (136 bytes) or
\* after the prefix field (500 bytes); the rest of the block is passed over.
C16_HeaderBlockConsumed ==
    [][(header = Null /\ header' # Null) =>
          /\ cacheOffset' = cacheOffset + HEADER_SIZE
          /\ StreamPosition(cacheOffset, DetailRead) < cacheOffset'
          /\ DetailRead => StreamPosition(cacheOffset, DetailRead) = cacheOffset + 500
          /\ ~DetailRead =>
                /\ StreamPosition(cacheOffset, DetailRead) = cacheOffset + 136
                /\ header'.ustarFormat = Str("")]_vars

\* C16 reached: a.json was decoded with its detail (its content passed the
\* ustar test and was returned), b.txt has just been decoded without, and
\* the window offset is 512 past its header.
C16_Witness ==
    /\ pc = "entry"
    /\ validFileTypes = <<RegExpJson>>
    /\ Len(files) = 1
    /\ files[1].name = Str("a.json")
    /\ files[1].buffer = "0123456789"
    /\ header # Null
    /\ header.name = Str("b.txt")
    /\ header.ustarFormat = Str("")
    /\ header.type = Str("")
    /\ WindowOffset + cacheOffset = decoded[Len(decoded)] + HEADER_SIZE

-----------------------------------------------------------------------------
(* Reading the header detail only when needed *)
(* The same file decoded twice with the same filters, mode and window: by   *)
(* untar, then by the loop of untar in which makeTarFile reads the fields   *)
(* after size of every header.                                              *)

\* DecodedHeader (lines 383-397) with continueRead true for every header.
DecodedHeaderWithDetail ==
    LET made == TarFile(buffer, cacheOffset, NameAt(buffer, cacheOffset, activeLongLink),
                        TRUE)
        g == IF globalPaxHeader # Null THEN applyHeader(made, globalPaxHeader.fields)
             ELSE made
    IN IF paxHeader # Null THEN applyHeader(g, paxHeader.fields) ELSE g

\* DecodeHeader (lines 380-399) with continueRead true for every header.
DecodeHeaderWithDetail ==
    /\ pc = "inner"
    /\ Len(buffer) - cacheOffset >= HEADER_SIZE
    /\ header = Null
    /\ header' = DecodedHeaderWithDetail
    /\ activeLongLink' = Null
    /\ paxHeader' = Null
    /\ cacheOffset' = cacheOffset + HEADER_SIZE
    /\ decoded' = Append(decoded, WindowOffset + cacheOffset)
    /\ pc' = "entry"
    /\ UNCHANGED <<config, variantB, files, fileOffset, globalPaxHeader, buffer, slice, error>>

\* The second decoding of the file, once untar has finished.
Redecode ==
    /\ Finished
    /\ first = Null
    /\ first' = Outcome
    /\ files' = <<>>
    /\ fileOffset' = 0
    /\ activeLongLink' = Null
    /\ paxHeader' = Null
    /\ globalPaxHeader' = Null
    /\ header' = Null
    /\ buffer' = ""
    /\ cacheOffset' = 0
    /\ slice' = Null
    /\ pc' = "loop"
    /\ error' = ""
    /\ decoded' = <<>>
    /\ UNCHANGED <<entries, file, validFileTypes, excludeInvalidFiles, cacheSize, variantB,
                   other>>

\* Ordinary files, a directory, and two symbolic links (type '2', no
\* content), one of them with a name the json pattern matches.
LinkPool ==
    << Entry("a.json", "0", "0123456789"),
       Entry("b.txt", "0", "hello"),
       Entry("dir/", "5", ""),
       [Entry("link.txt", "2", "") EXCEPT !.linkname = "b.txt"],
       [Entry("link.json", "2", "") EXCEPT !.linkname = "a.json"] >>

InitDetail == InitOf(LinkPool, FilterSets, BOOLEAN)

NextDetail ==
    \/ first = Null /\ Next
    \/ Redecode
    \/ /\ first # Null
       /\ \/ IssueRead
          \/ ReadComplete
          \/ Return
          \/ DecodeHeaderWithDetail
          \/ SkipEntry
          \/ DeferEntry
          \/ ReadEntry
          \/ EndWindow

SpecDetail == InitDetail /\ [][NextDetail]_vars

\* C17: the loop that reads the detail of every header ends with the same
\* ordered results, or the same error, as untar, which reads it only for
\* the headers that need it.
C17_DetailIsOnlyAnOptimization ==
    (first # Null /\ Finished) => (first.error = error /\ first.files = Outcome.files)

-----------------------------------------------------------------------------
(* A long-link name and a PAX path for the same header *)

GlobalPath == "g/renamed.json"

\* A global PAX header with a path record.  A local PAX header and a
\* long-link name are both used up by the next header decoded, so only a
\* global header can be pending together with a long-link name.
GlobalPaxPath == Entry("PaxHeader/global", "g", PaxRecord("path", GlobalPath))

PaxLongLinkPool ==
    << GlobalPaxPath,
       LongLinkMarker,
       Entry("a.json", "0", "0123456789"),
       Entry("b.txt", "0", "hello"),
       Entry("big.txt", "0", Text600) >>

InitPaxLongLink == InitOf(PaxLongLinkPool, {<<RegExpJson>>, <<RegExpTxt>>}, BOOLEAN)

SpecPaxLongLink == InitPaxLongLink /\ [][Next]_vars

\* C18: a header decoded while a long-link name is pending has that name,
\* whatever PAX overrides are pending with it.
C18_LongLinkNameAppliedLast ==
    [][(header = Null /\ header' # Null /\ Truthy(activeLongLink)) =>
          header'.name = activeLongLink]_vars

-----------------------------------------------------------------------------
(* PaxHeader.parse and PaxHeader.applyHeader on their own *)
(* A buffer of PAX records is parsed, and the fields are applied to the     *)
(* TarFile of an ordinary header.  Here entries holds the records the       *)
(* buffer was written from, buffer the content of the PAX entry, paxHeader  *)
(* the PaxHeader parsed from it and header the TarFile.                     *)

MaxRecords == 2

RecordKeys == {"path", "linkpath", "uid", "size", "uname", "comment"}
RecordValues == {"", "0", "000", "7", "42", "abc", "1a"}

RecordLists ==
    UNION {[1..n -> [name : RecordKeys, value : RecordValues]] : n \in 1..MaxRecords}

RECURSIVE RecordsBytes(_)
RecordsBytes(records) ==
    IF records = <<>> THEN ""
    ELSE PaxRecord(Head(records).name, Head(records).value)
         \o RecordsBytes(Tail(records))

\* The TarFile of the header of dir/f.json with all its fields read.
PlainTarFile ==
    TarFile(HeaderBlock([Entry("f.json", "0", "0123456789") EXCEPT !.prefix = "dir",
                                                                   !.linkname = "orig"]),
            0, "f.json", TRUE)

InitPaxRecords ==
    \E records \in RecordLists :
        /\ entries = records
        /\ buffer = RecordsBytes(records)
        /\ header = PlainTarFile
        /\ paxHeader = Null
        /\ pc = "parse"
        /\ error = ""
        /\ file = ""
        /\ validFileTypes = <<>>
        /\ excludeInvalidFiles = FALSE
        /\ cacheSize = HEADER_SIZE
        /\ files = <<>>
        /\ fileOffset = 0
        /\ activeLongLink = Null
        /\ globalPaxHeader = Null
        /\ cacheOffset = 0
        /\ slice = Null
        /\ first = Null
        /\ fileNames = <<>>
        /\ needsHeader = TRUE
        /\ decoded = <<>>
        /\ other = Null

\* PaxHeader.parse(buffer), lines 146-196.
ParseRecords ==
    /\ pc = "parse"
    /\ \E r \in {PaxHeaderParse(buffer)} :
          IF r.error # ""
          THEN /\ error' = r.error
               /\ pc' = "error"
               /\ UNCHANGED paxHeader
          ELSE /\ paxHeader' = [fields |-> r.fields]
               /\ pc' = "apply"
               /\ UNCHANGED error
    /\ UNCHANGED <<config, decoded, variantB, files, fileOffset, activeLongLink,
                   globalPaxHeader, header, buffer, cacheOffset, slice>>

\* paxHeader.applyHeader(header), lines 197-227.
ApplyRecords ==
    /\ pc = "apply"
    /\ header' = applyHeader(header, paxHeader.fields)
    /\ pc' = "done"
    /\ UNCHANGED <<config, decoded, variantB, files, fileOffset, activeLongLink,
                   paxHeader, globalPaxHeader, buffer, cacheOffset, slice, error>>

NextPaxRecords == ParseRecords \/ ApplyRecords

SpecPaxRecords == InitPaxRecords /\ [][NextPaxRecords]_vars

\* C19: after applyHeader, a field of the TarFile that changed holds a value
\* of the type it held before (text stays text, a number stays a number);
\* only prefix, which a path record deletes, may be gone.
C19_OverridesKeepTheFieldType ==
    pc = "done" =>
        \A f \in DOMAIN header :
            header[f] # PlainTarFile[f] =>
                \/ header[f].t = PlainTarFile[f].t
                \/ f = "prefix" /\ header[f] = Undefined

\* The value parse is to give a record: an integer when the text is a
\* non-empty run of decimal digits, the text otherwise.
ClassifiedValue(value) ==
    IF Len(value) > 0 /\ AllDecDigits[value] THEN Num(DigitsValue[value, 10])
    ELSE Str(value)

\* C20: parse returns one field per record, in the order of the buffer, with
\* the record's key, and with the integer value of a non-empty all-digit
\* text ('0' and '000' included) or else the text.
C20_ParsedFields ==
    pc = "apply" =>
        /\ Len(paxHeader.fields) = Len(entries)
        /\ \A k \in 1..Len(entries) :
              /\ paxHeader.fields[k].name = entries[k].name
              /\ paxHeader.fields[k].value = ClassifiedValue(entries[k].value)

-----------------------------------------------------------------------------
(* Result names *)

\* The full path of an entry as its header gives it.
FullPath(e) == IF e.prefix # "" THEN e.prefix \o "/" \o e.name ELSE e.name

\* C21: the name of every result is the full path of an entry of the
\* archive, prefix + "/" + name when the header has a prefix, or the path a
\* PAX record gave the entry.
C21_ResultNamesAreFullPaths ==
    \A k \in 1..Len(files) :
        \/ \E i \in 1..Len(entries) : files[k].name = Str(FullPath(entries[i]))
        \/ files[k].name = Str(PaxPath)

-----------------------------------------------------------------------------
(* Variant B: the content of matching entries *)

\* The valid-named entries that match one of the patterns.
Matched(es) ==
    LET some(e) == MatchesPattern(e.name)
    IN SelectSeq(ValidNamed(es), some)

\* The records of files whose name matches one of the patterns.
MatchedFiles ==
    LET some(f) == MatchesSome(validFileTypes, f.name)
    IN SelectSeq(files, some)

\* C22: in content mode, after untar of an archive of plain entries, the
\* records of files with a matching name are, in archive order, one per
\* valid-named matching entry, each with the size bytes of its content,
\* whatever the size.
C22_OneRecordPerMatchingEntry ==
    (~excludeInvalidFiles /\ PlainArchive /\ pc = "done") =>
        MatchedFiles = [k \in 1..Len(Matched(entries)) |->
                            [name |-> Str(Matched(entries)[k].name),
                             buffer |-> Matched(entries)[k].data]]

-----------------------------------------------------------------------------
(* Variant B: two untar calls on one Tsunami *)
(* buffer, header, files and fileNames are fields of the Tsunami and are    *)
(* shared by the calls; fileOffset, needsHeader, activeLongLink and         *)
(* cacheOffset are locals of each call.  A call runs until it awaits a read *)
(* or ends; then the other call may start, or go on when its read is done.  *)
(* The variables hold the locals of the call that runs, other those of the  *)
(* call that waits.                                                         *)

\* The archives of the first call: a file with content; a file whose
\* content needs a second window and a directory named "."; a long-link
\* marker and the file it names.
FirstArchives ==
    { <<PoolB[1]>>, <<PoolB[3], PoolB[4]>>, <<PoolB[5], PoolB[2]>> }

\* The archive of the second call.
SecondArchives == { <<Entry("x.json", "0", "0123456789")>> }

\* Windows of one and of two header blocks.
CallCacheSizes == {HEADER_SIZE, 2 * HEADER_SIZE}

\* The locals of the call that runs.
Locals ==
    [entries |-> entries, file |-> file, fileOffset |-> fileOffset,
     needsHeader |-> needsHeader, activeLongLink |-> activeLongLink,
     cacheOffset |-> cacheOffset, slice |-> slice, pc |-> pc, error |-> error,
     decoded |-> decoded]

\* The locals of untar(file) before its loop (lines 957-960).
NewCall(es) ==
    [entries |-> es, file |-> ArchiveOf(es), fileOffset |-> 0,
     needsHeader |-> TRUE, activeLongLink |-> Null, cacheOffset |-> 0,
     slice |-> Null, pc |-> "loop", error |-> "", decoded |-> <<>>]

InitTwoCalls ==
    \E es \in FirstArchives, es2 \in SecondArchives,
       types \in {<<>>, <<RegExpJson>>}, exclude \in BOOLEAN, size \in CallCacheSizes :
        /\ entries = es
        /\ file = ArchiveOf(es)
        /\ validFileTypes = types
        /\ excludeInvalidFiles = exclude
        /\ cacheSize = size
        /\ files = <<>>
        /\ fileNames = <<>>
        /\ fileOffset = 0
        /\ needsHeader = TRUE
        /\ activeLongLink = Null
        /\ paxHeader = Null
        /\ globalPaxHeader = Null
        /\ header = InitialHeader
        /\ buffer = ""
        /\ cacheOffset = 0
        /\ slice = Null
        /\ pc = "loop"
        /\ error = ""
        /\ first = Null
        /\ decoded = <<>>
        /\ other = NewCall(es2)

\* The call that runs awaits its read (line 972 or 980), or has ended; the
\* other call starts, or its read completes and it goes on.
SwitchCall ==
    /\ other # Null
    /\ pc \in {"await", "done", "error"}
    /\ other.pc \in {"loop", "await"}
    /\ other' = Locals
    /\ entries' = other.entries
    /\ file' = other.file
    /\ fileOffset' = other.fileOffset
    /\ needsHeader' = other.needsHeader
    /\ activeLongLink' = other.activeLongLink
    /\ cacheOffset' = other.cacheOffset
    /\ slice' = other.slice
    /\ pc' = other.pc
    /\ error' = other.error
    /\ decoded' = other.decoded
    /\ UNCHANGED <<validFileTypes, excludeInvalidFiles, cacheSize, first, variantA,
                   fileNames, files, header, buffer>>

NextTwoCalls == NextB \/ SwitchCall

SpecTwoCalls == InitTwoCalls /\ [][NextTwoCalls]_vars

\* C23: the bytes a call decodes are bytes of its own archive: while a call
\* runs its inner loop, the buffer holds the bytes of its file that end at
\* its fileOffset, as on a Tsunami no other call uses.
C23_EachCallDecodesItsOwnArchive ==
    pc \in {"inner", "entry", "carry"} =>
        buffer = Slice[file, fileOffset - Len(buffer), fileOffset]

-----------------------------------------------------------------------------
(* Entries that carry extensions *)

\* The names of the entries of type 'g', 'x' or 'L'.
CarrierNames ==
    {entries[i].name : i \in {j \in 1..Len(entries) : entries[j].type \in {"g", "x", "L"}}}

\* C24: no result, with content or without, has the name of a global PAX,
\* local PAX or long-link entry of the archive.
C24_CarriersAreNoResults ==
    \A k \in 1..Len(files) : \A n \in CarrierNames : files[k].name # Str(n)

-----------------------------------------------------------------------------
(* Truncated archives *)
(* The file is an archive without its last bytes: whole, without 300 bytes  *)
(* of the zero blocks at its end, without the zero blocks, and without the  *)
(* zero blocks and the last 502 bytes before them, which for a last entry   *)
(* of 10 bytes is all of its padding.                                       *)

TruncatedPool ==
    << Entry("a.json", "0", "0123456789"),
       Entry("big.txt", "0", Text600) >>

Cuts == {0, 300, 2 * HEADER_SIZE, 2 * HEADER_SIZE + 502}

\* Windows of 100 bytes, of one header and of two headers.
TruncatedCacheSizes == {100, HEADER_SIZE, 2 * HEADER_SIZE}

InitTruncated ==
    \E es \in ArchivesOf(TruncatedPool), cut \in Cuts,
       types \in {<<>>, <<RegExpJson>>}, exclude \in {FALSE},
       size \in TruncatedCacheSizes :
        \E bytes \in {Slice[ArchiveOf(es), 0, Len(ArchiveOf(es)) - cut]} :
            Start(es, bytes, types, exclude, size)

SpecTruncated == InitTruncated /\ [][Next]_vars

\* C25: when untar has returned, no header is pending.
C25_NoHeaderPendingAtReturn ==
    pc = "done" => header = Null

-----------------------------------------------------------------------------
(* Termination *)

\* Every awaited read completes, and the loop of untar goes on.
FairSpecTruncated == SpecTruncated /\ WF_vars(Next)

-----------------------------------------------------------------------------
(* The zero blocks at the end of the archive *)

\* The offset of the first zero block after the last entry.
EndOfEntries == EntryOffset(entries, Len(entries) + 1)

\* A header has been decoded from a zero block at the end of the archive.
ZeroBlockDecoded == \E k \in 1..Len(decoded) : decoded[k] >= EndOfEntries

\* C27: once a header has been decoded from a zero block at the end of the
\* archive, no further header is decoded and no further read is issued, and
\* untar does not throw.
C27_ZeroBlockEndsTheDecode ==
    [][ZeroBlockDecoded =>
          /\ decoded' = decoded
          /\ ~(~ReadOutstanding /\ ReadOutstanding')
          /\ pc' # "error"]_vars

-----------------------------------------------------------------------------
(* decodeOctal on the size field *)
(* makeTarFile is applied to the header block of a.json in which the size   *)
(* field holds a text of at most MaxFieldText characters, zero-filled.      *)

MaxFieldText == 3

FieldChars == {"0", "1", "7", "8", "9", "a"}

RECURSIVE FieldTexts(_)
FieldTexts(n) ==
    IF n = 0 THEN {""}
    ELSE FieldTexts(n - 1)
         \cup {t \o c : t \in {u \in FieldTexts(n - 1) : Len(u) = n - 1}, c \in FieldChars}

\* Where the size field starts in a header block (lines 80-84).
SizeFieldOffset == NAME_LENGTH + MODE_LENGTH + UID_LENGTH + GID_LENGTH

\* The text of the size field of the block in buffer.
SizeText == readString[buffer, SizeFieldOffset, SIZE_LENGTH]

InitOctal ==
    \E text \in FieldTexts(MaxFieldText) :
        \E block \in {HeaderBlock(Entry("a.json", "0", ""))} :
            /\ buffer = Slice[block, 0, SizeFieldOffset] \o Field(text, SIZE_LENGTH)
                        \o Slice[block, SizeFieldOffset + SIZE_LENGTH, HEADER_SIZE]
            /\ entries = <<>>
            /\ file = ""
            /\ validFileTypes = <<>>
            /\ excludeInvalidFiles = FALSE
            /\ cacheSize = HEADER_SIZE
            /\ files = <<>>
            /\ fileOffset = 0
            /\ activeLongLink = Null
            /\ paxHeader = Null
            /\ globalPaxHeader = Null
            /\ header = Null
            /\ cacheOffset = 0
            /\ slice = Null
            /\ pc = "inner"
            /\ error = ""
            /\ first = Null
            /\ fileNames = <<>>
            /\ needsHeader = TRUE
            /\ decoded = <<>>
            /\ other = Null

\* makeTarFile on the block (lines 77-141); size is decodeOctal of the field.
DecodeSizeField ==
    /\ pc = "inner"
    /\ header = Null
    /\ header' = makeTarFile(buffer, 0, validFileTypes, activeLongLink, globalPaxHeader,
                             paxHeader)
    /\ pc' = "done"
    /\ UNCHANGED <<config, decoded, variantA, variantB, files, fileOffset, activeLongLink,
                   buffer, cacheOffset, slice, error>>

NextOctal == DecodeSizeField

SpecOctal == InitOctal /\ [][NextOctal]_vars

\* The text is a number written in octal digits.
ValidOctal(text) == text # "" /\ OctalPrefix[text] = text

\* C28: the size decoded from the field is the value of the text read in
\* base 8 when the text is a valid octal number, and 0 for every other text,
\* the empty one included; it is a number, not NaN, and not negative.
C28_DecodeOctalIsLenient ==
    pc = "done" =>
        /\ header.size.t = "number"
        /\ ~IsNaN(header.size)
        /\ header.size.n >= 0
        /\ header.size = (IF ValidOctal(SizeText) THEN Num(DigitsValue[SizeText, 8])
                          ELSE Num(0))

====
